---- MODULE Spec2Model ----
(***************************************************************************)
(* Model of Net::Tcp::Listener (src/src/listener.cc): the worker pool,     *)
(* bind's candidate loop, the accept loop of run(), the SIGINT handler     *)
(* handle_sigint, the load thread's loop condition and shutdown().         *)
(*                                                                         *)
(* Threads: the owner thread calls init, pinWorker, bind and run; the      *)
(* signal handler runs on whichever thread the kernel picks, so its steps  *)
(* interleave freely with every thread (a handler that interrupts the      *)
(* owner thread is the interleaving in which the owner takes no step until *)
(* the handler returns); shutdown() may be called from any thread; the     *)
(* load thread is started by bind.                                         *)
(*                                                                         *)
(* Operating system assumptions: socket() and accept() return the lowest   *)
(* free descriptor; an accept() on a descriptor that is not an open        *)
(* listening socket fails; an accept() blocked on a descriptor that gets   *)
(* closed fails.                                                           *)
(*                                                                         *)
(* Collaborators whose code is not in listener.cc (IoWorker, the Async     *)
(* promises) follow their documented interface: then() makes the load      *)
(* thread wait until every future of the round has settled, and the        *)
(* rejection handler Async::NoExcept drops a failure.                      *)
(***************************************************************************)
EXTENDS Integers, Sequences, FiniteSets, TLC

\* ---- bounds of the model ----
MaxWorkers == 2 \* largest pool size reached over all init calls
MaxCands == 2   \* longest list of resolver candidates
MaxFd == 5      \* largest descriptor number of the process
MaxConns == 2   \* connections that arrive during the run
MaxSignals == 2 \* SIGINT deliveries
MaxOps == 4     \* calls of the public operations

\* the descriptors the process can open; 0, 1 and 2 are the standard streams
Fds == 3..MaxFd
Handlers == 1..MaxSignals
CandOutcomes == {"sockfail", "optfail", "bindfail", "listenfail", "ok"}

RECURSIVE SeqsUpTo(_, _)
SeqsUpTo(S, n) ==
    IF n = 0 THEN {<<>>}
    ELSE LET prev == SeqsUpTo(S, n - 1)
         IN  prev \cup {Append(s, x) : s \in {t \in prev : Len(t) = n - 1}, x \in S}

CandLists == SeqsUpTo(CandOutcomes, MaxCands) \ {<<>>}

VARIABLES
    ioGroup,      \* the pool: sequence of workers [starts, stops, pins, peers]
    sigInstalled, \* handle_sigint is installed for SIGINT
    listen_fd,    \* Listener::listen_fd
    g_listen_fd,  \* the global record read by handle_sigint
    sh,           \* the shutdown flag
    loadThread,   \* "none", or the load thread's position: "test", "round", "exited"
    fdTable,      \* descriptor -> "closed", "socket", "listening", "client"
    conns,        \* accepted connections: [fd, open, n, w]
    runpc,        \* position of run() on the owner thread
    client_fd,    \* run()'s client_fd
    acceptErr,    \* why the last accept of run() failed
    runShutdowns, \* shutdown() calls made by the current run()
    hpc,          \* handler context -> position in handle_sigint
    crashed,      \* the process was terminated
    ops,          \* public operations called so far
    last,         \* the last call of a public operation and its outcome
    bindOk,       \* bind calls that returned true
    interrupted,  \* run()'s accept failed because its descriptor was closed under it
    loads,        \* runLoadThread: the futures of the current round
    lastUsages,   \* runLoadThread: the cached snapshot
    load          \* the loads computed by the last continuation

vars == <<ioGroup, sigInstalled, listen_fd, g_listen_fd, sh, loadThread,
          fdTable, conns, runpc, client_fd, acceptErr, runShutdowns, hpc,
          crashed, ops, last, bindOk, interrupted, loads, lastUsages, load>>

\* the locals of runLoadThread and of its continuation
loadLocals == <<loads, lastUsages, load>>

\* ---- helpers ----
\* a call of a public operation: its name, its argument and how it ended
Outcome(op, arg, res) == [op |-> op, arg |-> arg, res |-> res]

NewWorker == [starts |-> 0, stops |-> 0, pins |-> 0, peers |-> <<>>]

Size == Len(ioGroup)

FreeFds(tbl) == {f \in Fds : tbl[f] = "closed"}

\* the kernel hands out the lowest free descriptor, -1 when there is none
LowestFree(tbl) ==
    IF FreeFds(tbl) = {} THEN -1
    ELSE CHOOSE f \in FreeFds(tbl) : \A g \in FreeFds(tbl) : f <= g

\* close(fd): EBADF (no effect) when fd is not an open descriptor
CloseFd(tbl, fd) ==
    IF fd \in Fds /\ tbl[fd] # "closed" THEN [tbl EXCEPT ![fd] = "closed"] ELSE tbl

IsListening(tbl, fd) == fd \in Fds /\ tbl[fd] = "listening"

\* the owner thread executes its code as long as the process lives
OwnerFree == ~crashed

OwnerIdle == OwnerFree /\ runpc \in {"idle", "returned", "thrown"} /\ ops < MaxOps

Init ==
    /\ ioGroup = <<>>
    /\ sigInstalled = FALSE
    /\ listen_fd = -1
    /\ g_listen_fd = -1
    \* no constructor initialises the flag and nothing reads it before bind
    \* stores false in it
    /\ sh = FALSE
    /\ loadThread = "none"
    /\ fdTable = [f \in Fds |-> "closed"]
    /\ conns = <<>>
    /\ runpc = "idle"
    /\ client_fd = -1
    /\ acceptErr = "none"
    /\ runShutdowns = 0
    /\ hpc = [h \in Handlers |-> "idle"]
    /\ crashed = FALSE
    /\ ops = 0
    /\ last = Outcome("none", 0, "none")
    /\ bindOk = 0
    /\ interrupted = FALSE
    /\ loads = <<>>
    /\ lastUsages = <<>>
    /\ load = <<>>

\* ---- Listener::init ----
RECURSIVE PushWorkers(_, _)
PushWorkers(g, n) == IF n = 0 THEN g ELSE PushWorkers(Append(g, NewWorker), n - 1)

ListenerInit(workers, install, installFails) ==
    /\ OwnerIdle
    /\ Size + workers <= MaxWorkers
    /\ ops' = ops + 1
    /\ IF install /\ installFails
         THEN /\ last' = Outcome("init", workers, "runtime_error")
              /\ UNCHANGED <<ioGroup, sigInstalled>>
         ELSE /\ sigInstalled' = (sigInstalled \/ install)
              /\ ioGroup' = PushWorkers(ioGroup, workers)
              /\ last' = Outcome("init", workers, "returned")
    /\ UNCHANGED <<listen_fd, g_listen_fd, sh, loadThread, fdTable, conns, runpc,
                   client_fd, acceptErr, runShutdowns, hpc, crashed, bindOk, interrupted>>
    /\ UNCHANGED loadLocals

\* ---- Listener::pinWorker ----
\* the range test of pinWorker: the index is rejected when it exceeds the size
PinIndexRejected(worker, size) == worker > size

\* ioGroup[worker] with worker = size reads past the end of the vector:
\* the call crashes, or returns having pinned nothing or some worker
PinPastEnd(worker) ==
    \/ /\ crashed' = TRUE
       /\ last' = Outcome("pinWorker", worker, "crash")
       /\ UNCHANGED ioGroup
    \/ /\ last' = Outcome("pinWorker", worker, "returned")
       /\ UNCHANGED crashed
       /\ \/ UNCHANGED ioGroup
          \/ \E i \in 1..Size : ioGroup' = [ioGroup EXCEPT ![i].pins = @ + 1]

pinWorker(worker) ==
    /\ OwnerIdle
    /\ ops' = ops + 1
    /\ IF Size = 0
         THEN last' = Outcome("pinWorker", worker, "domain_error") /\ UNCHANGED <<ioGroup, crashed>>
         ELSE IF PinIndexRejected(worker, Size)
         THEN last' = Outcome("pinWorker", worker, "invalid_argument") /\ UNCHANGED <<ioGroup, crashed>>
         ELSE IF worker < Size
         THEN /\ ioGroup' = [ioGroup EXCEPT ![worker + 1].pins = @ + 1]
              /\ last' = Outcome("pinWorker", worker, "returned")
              /\ UNCHANGED crashed
         ELSE PinPastEnd(worker)
    /\ UNCHANGED <<sigInstalled, listen_fd, g_listen_fd, sh, loadThread, fdTable,
                   conns, runpc, client_fd, acceptErr, runShutdowns, hpc,
                   bindOk, interrupted>>
    /\ UNCHANGED loadLocals

\* ---- Listener::bind ----
BindRejectedNever == FALSE

\* bind refuses to run on an empty pool
BindRejected == Size = 0

\* the loop over the resolver's candidates; fd is the loop's variable.
\* Result: the descriptor table, fd, and whether a TRY threw.
RECURSIVE BindLoop(_, _, _)
BindLoop(tbl, fd, cands) ==
    IF cands = <<>> THEN [tbl |-> tbl, fd |-> fd, thrown |-> FALSE]
    ELSE LET c == Head(cands)
             s == IF c = "sockfail" THEN -1 ELSE LowestFree(tbl)
         IN  IF s < 0 THEN BindLoop(tbl, s, Tail(cands))
             ELSE IF c = "optfail"
                  THEN [tbl |-> [tbl EXCEPT ![s] = "socket"], fd |-> s, thrown |-> TRUE]
             ELSE IF c = "bindfail"
                  THEN BindLoop(CloseFd([tbl EXCEPT ![s] = "socket"], s), s, Tail(cands))
             ELSE IF c = "listenfail"
                  THEN [tbl |-> [tbl EXCEPT ![s] = "socket"], fd |-> s, thrown |-> TRUE]
             ELSE BindLoop([tbl EXCEPT ![s] = "listening"], s, Tail(cands))

StartWorkersButLast(g) ==
    [i \in DOMAIN g |-> IF i < Len(g) THEN [g[i] EXCEPT !.starts = @ + 1] ELSE g[i]]

\* for (auto& io: ioGroup) io->start(handler_, options_)
StartWorkers(g) == [i \in DOMAIN g |-> [g[i] EXCEPT !.starts = @ + 1]]

\* resolved = FALSE: getaddrinfo fails
bind(resolved, cands) ==
    /\ OwnerIdle
    /\ ops' = ops + 1
    /\ IF BindRejected
         THEN /\ last' = Outcome("bind", 0, "runtime_error")
              /\ UNCHANGED <<ioGroup, listen_fd, g_listen_fd, sh, loadThread,
                             fdTable, crashed, bindOk>>
         ELSE IF ~resolved
         THEN /\ last' = Outcome("bind", 0, "os_error")
              /\ UNCHANGED <<ioGroup, listen_fd, g_listen_fd, sh, loadThread,
                             fdTable, crashed, bindOk>>
         ELSE LET r == BindLoop(fdTable, -1, cands)
              IN  /\ fdTable' = r.tbl
                  /\ IF r.thrown
                       THEN /\ last' = Outcome("bind", 0, "os_error")
                            /\ UNCHANGED <<ioGroup, listen_fd, g_listen_fd, sh,
                                           loadThread, crashed, bindOk>>
                       ELSE /\ listen_fd' = r.fd
                            /\ g_listen_fd' = r.fd
                            /\ ioGroup' = StartWorkers(ioGroup)
                            /\ sh' = FALSE
                            \* resetting loadThread destroys a joinable
                            \* std::thread: std::terminate
                            /\ IF loadThread = "none"
                                 THEN /\ loadThread' = "test"
                                      /\ last' = Outcome("bind", 0, "true")
                                      /\ bindOk' = bindOk + 1
                                      /\ UNCHANGED crashed
                                 ELSE /\ crashed' = TRUE
                                      /\ last' = Outcome("bind", 0, "terminate")
                                      /\ UNCHANGED <<loadThread, bindOk>>
    /\ UNCHANGED <<sigInstalled, conns, runpc, client_fd, acceptErr, runShutdowns,
                   hpc, interrupted>>
    /\ UNCHANGED loadLocals

\* ---- Listener::shutdown ----
StopWorkers(g) == [i \in DOMAIN g |-> [g[i] EXCEPT !.stops = @ + 1]]

ShutdownFlagToggled == ~sh

\* the value shutdown() stores in the flag
ShutdownFlag == TRUE

\* shutdown() called directly, from any thread
shutdown ==
    /\ ~crashed
    /\ ops < MaxOps
    /\ ops' = ops + 1
    /\ ioGroup' = StopWorkers(ioGroup)
    /\ sh' = ShutdownFlag
    /\ last' = Outcome("shutdown", 0, "returned")
    /\ UNCHANGED <<sigInstalled, listen_fd, g_listen_fd, loadThread, fdTable,
                   conns, runpc, client_fd, acceptErr, runShutdowns, hpc,
                   crashed, bindOk, interrupted>>
    /\ UNCHANGED loadLocals

\* ---- handle_sigint ----
\* SIGINT is delivered to some thread once init has installed the handler
\* (before that the signal ends the process).  Contexts are used in order.
Deliver(h) ==
    /\ ~crashed
    /\ sigInstalled
    /\ hpc[h] = "idle"
    /\ \A k \in Handlers : k < h => hpc[k] # "idle"
    /\ hpc' = [hpc EXCEPT ![h] = "test"]
    /\ UNCHANGED <<ioGroup, sigInstalled, listen_fd, g_listen_fd, sh, loadThread,
                   fdTable, conns, runpc, client_fd, acceptErr, runShutdowns,
                   crashed, ops, last, bindOk, interrupted>>
    /\ UNCHANGED loadLocals

\* if (g_listen_fd != -1)
HandlerTest(h) ==
    /\ ~crashed
    /\ hpc[h] = "test"
    /\ hpc' = [hpc EXCEPT ![h] = IF g_listen_fd # -1 THEN "close" ELSE "done"]
    /\ UNCHANGED <<ioGroup, sigInstalled, listen_fd, g_listen_fd, sh, loadThread,
                   fdTable, conns, runpc, client_fd, acceptErr, runShutdowns,
                   crashed, ops, last, bindOk, interrupted>>
    /\ UNCHANGED loadLocals

\* close(g_listen_fd): the volatile record is read again
HandlerClose(h) ==
    /\ ~crashed
    /\ hpc[h] = "close"
    /\ fdTable' = CloseFd(fdTable, g_listen_fd)
    /\ hpc' = [hpc EXCEPT ![h] = "clear"]
    /\ UNCHANGED <<ioGroup, sigInstalled, listen_fd, g_listen_fd, sh, loadThread,
                   conns, runpc, client_fd, acceptErr, runShutdowns,
                   crashed, ops, last, bindOk, interrupted>>
    /\ UNCHANGED loadLocals

\* g_listen_fd = -1
HandlerClear(h) ==
    /\ ~crashed
    /\ hpc[h] = "clear"
    /\ g_listen_fd' = -1
    /\ hpc' = [hpc EXCEPT ![h] = "done"]
    /\ UNCHANGED <<ioGroup, sigInstalled, listen_fd, sh, loadThread, fdTable,
                   conns, runpc, client_fd, acceptErr, runShutdowns,
                   crashed, ops, last, bindOk, interrupted>>
    /\ UNCHANGED loadLocals

\* ---- Listener::run ----
RunCall ==
    /\ OwnerIdle
    /\ ops' = ops + 1
    /\ runpc' = "accept"
    /\ runShutdowns' = 0
    /\ acceptErr' = "none"
    /\ client_fd' = -1
    /\ last' = Outcome("run", 0, "called")
    /\ interrupted' = FALSE
    /\ UNCHANGED <<ioGroup, sigInstalled, listen_fd, g_listen_fd, sh, loadThread,
                   fdTable, conns, hpc, crashed, bindOk>>
    /\ UNCHANGED loadLocals

\* ::accept(listen_fd, ...) is entered: it blocks on a listening socket and
\* fails at once on anything else
AcceptCall ==
    /\ OwnerFree
    /\ runpc = "accept"
    /\ IF IsListening(fdTable, listen_fd)
         THEN /\ runpc' = "blocked"
              /\ UNCHANGED <<client_fd, acceptErr>>
         ELSE /\ runpc' = "failed"
              /\ client_fd' = -1
              /\ acceptErr' = IF listen_fd \in Fds /\ fdTable[listen_fd] # "closed"
                                THEN "EINVAL" ELSE "EBADF"
    /\ UNCHANGED <<ioGroup, sigInstalled, listen_fd, g_listen_fd, sh, loadThread,
                   fdTable, conns, runShutdowns, hpc, crashed, ops,
                   last, bindOk, interrupted>>
    /\ UNCHANGED loadLocals

\* a connection arrives: accept returns the lowest free descriptor, or fails
\* with EMFILE when the process has none left
AcceptConn ==
    /\ OwnerFree
    /\ runpc = "blocked"
    /\ IsListening(fdTable, listen_fd)
    /\ Len(conns) < MaxConns
    /\ LET d == LowestFree(fdTable)
       IN  IF d < 0
             THEN /\ runpc' = "failed"
                  /\ client_fd' = -1
                  /\ acceptErr' = "EMFILE"
                  /\ UNCHANGED <<fdTable, conns>>
             ELSE /\ runpc' = "dispatch"
                  /\ client_fd' = d
                  /\ fdTable' = [fdTable EXCEPT ![d] = "client"]
                  /\ conns' = Append(conns, [fd |-> d, open |-> TRUE, n |-> 0, w |-> -1])
                  /\ UNCHANGED acceptErr
    /\ UNCHANGED <<ioGroup, sigInstalled, listen_fd, g_listen_fd, sh, loadThread,
                   runShutdowns, hpc, crashed, ops, last, bindOk, interrupted>>
    /\ UNCHANGED loadLocals

\* the descriptor accept is blocked on was closed: accept fails
AcceptClosed ==
    /\ OwnerFree
    /\ runpc = "blocked"
    /\ ~IsListening(fdTable, listen_fd)
    /\ runpc' = "failed"
    /\ client_fd' = -1
    /\ acceptErr' = "EBADF"
    /\ interrupted' = TRUE
    /\ UNCHANGED <<ioGroup, sigInstalled, listen_fd, g_listen_fd, sh, loadThread,
                   fdTable, conns, runShutdowns, hpc, crashed, ops, last, bindOk>>
    /\ UNCHANGED loadLocals

\* if (client_fd < 0) { if (g_listen_fd == -1) ... else throw }
AcceptFailed ==
    /\ OwnerFree
    /\ runpc = "failed"
    /\ runpc' = IF g_listen_fd = -1 THEN "shutdown" ELSE "thrown"
    /\ UNCHANGED <<ioGroup, sigInstalled, listen_fd, g_listen_fd, sh, loadThread,
                   fdTable, conns, client_fd, acceptErr, runShutdowns, hpc,
                   crashed, ops, last, bindOk, interrupted>>
    /\ UNCHANGED loadLocals

\* shutdown(); break;
RunShutdown ==
    /\ OwnerFree
    /\ runpc = "shutdown"
    /\ ioGroup' = StopWorkers(ioGroup)
    /\ sh' = ShutdownFlag
    /\ runShutdowns' = runShutdowns + 1
    /\ runpc' = "returned"
    /\ UNCHANGED <<sigInstalled, listen_fd, g_listen_fd, loadThread, fdTable,
                   conns, client_fd, acceptErr, hpc, crashed, ops,
                   last, bindOk, interrupted>>
    /\ UNCHANGED loadLocals

\* ---- Listener::dispatchPeer ----
DispatchIndexOffByOne(d, workers) == (d + 1) % workers

\* the index of the worker that gets the peer with descriptor d
DispatchIndex(d, workers) == d % workers

HandleNewPeerTwice(g, worker, c) == [g EXCEPT ![worker + 1].peers = Append(Append(@, c), c)]

\* ioGroup[worker]->handleNewPeer(peer)
HandleNewPeer(g, worker, c) == [g EXCEPT ![worker + 1].peers = Append(@, c)]

dispatchPeer ==
    /\ OwnerFree
    /\ runpc = "dispatch"
    /\ LET c == Len(conns)
           worker == DispatchIndex(client_fd, Size)
       IN  /\ ioGroup' = HandleNewPeer(ioGroup, worker, c)
           /\ conns' = [conns EXCEPT ![c].n = Size, ![c].w = worker]
    /\ runpc' = "accept"
    /\ UNCHANGED <<sigInstalled, listen_fd, g_listen_fd, sh, loadThread, fdTable,
                   client_fd, acceptErr, runShutdowns, hpc, crashed, ops,
                   last, bindOk, interrupted>>
    /\ UNCHANGED loadLocals

\* ---- Worker Reactor (collaborator): a worker closes a peer it owns ----
WorkerClosePeer(c) ==
    /\ ~crashed
    /\ c \in 1..Len(conns)
    /\ conns[c].open
    /\ \E i \in 1..Size : \E k \in 1..Len(ioGroup[i].peers) : ioGroup[i].peers[k] = c
    /\ conns' = [conns EXCEPT ![c].open = FALSE]
    /\ fdTable' = CloseFd(fdTable, conns[c].fd)
    /\ UNCHANGED <<ioGroup, sigInstalled, listen_fd, g_listen_fd, sh, loadThread,
                   runpc, client_fd, acceptErr, runShutdowns, hpc,
                   crashed, ops, last, bindOk, interrupted>>
    /\ UNCHANGED loadLocals

\* ---- Listener::runLoadThread ----
\* the rusage a worker reports: user and system CPU time, each in seconds
\* and microseconds
RUsage(us, uu, ss, su) ==
    [ru_utime |-> [tv_sec |-> us, tv_usec |-> uu],
     ru_stime |-> [tv_sec |-> ss, tv_usec |-> su]]

\* the snapshots the workers report in the model
RUsages == {RUsage(0, 0, 0, 0), RUsage(0, 500000, 0, 250000), RUsage(1, 250000, 0, 500000)}

\* a future of getLoad(): pending, resolved with a usage, or rejected
Future(st, usage) == [st |-> st, usage |-> usage]

\* the lambda totalElapsed
TotalElapsed(usage) ==
    (usage.ru_stime.tv_sec * 1000000 + usage.ru_stime.tv_usec)
        + (usage.ru_utime.tv_sec * 1000000 + usage.ru_utime.tv_usec)

\* time = now - totalElapsed(last); load = (time * 100.0) / 1e6
Load(usage, lastUsage) ==
    ((TotalElapsed(usage) - TotalElapsed(lastUsage)) * 100) \div 1000000

\* while (!sh)
LoadLoopCondition == ~sh

LoadTest ==
    /\ ~crashed
    /\ loadThread = "test"
    /\ loadThread' = IF LoadLoopCondition THEN "round" ELSE "exited"
    /\ UNCHANGED <<ioGroup, sigInstalled, listen_fd, g_listen_fd, sh, fdTable,
                   conns, runpc, client_fd, acceptErr, runShutdowns, hpc,
                   crashed, ops, last, bindOk, interrupted>>
    /\ UNCHANGED loadLocals

\* the body of the loop taken as one step, for the properties that do not
\* look into a round: the requests, the wait for the workers' reports, the
\* continuation and sleep_for(1s).  What the body writes are locals of the
\* load thread, which no other thread reads; LoadIssue, GetLoadReply,
\* LoadThen and LoadSleep are the same body step by step.
LoadRound ==
    /\ ~crashed
    /\ loadThread = "round"
    /\ loadThread' = "test"
    /\ UNCHANGED <<ioGroup, sigInstalled, listen_fd, g_listen_fd, sh, fdTable,
                   conns, runpc, client_fd, acceptErr, runShutdowns, hpc,
                   crashed, ops, last, bindOk, interrupted>>
    /\ UNCHANGED loadLocals

\* for (const auto& io: ioGroup) loads.push_back(io->getLoad())
GetLoads(g) == [i \in 1..Len(g) |-> Future("pending", RUsage(0, 0, 0, 0))]

LoadIssue ==
    /\ ~crashed
    /\ loadThread = "round"
    /\ loads' = GetLoads(ioGroup)
    /\ loadThread' = "wait"
    /\ UNCHANGED <<ioGroup, sigInstalled, listen_fd, g_listen_fd, sh, fdTable,
                   conns, runpc, client_fd, acceptErr, runShutdowns, hpc,
                   crashed, ops, last, bindOk, interrupted, lastUsages, load>>

\* Worker Reactor (collaborator): worker i settles its getLoad() future, with
\* its cumulative CPU time, which never decreases, or with a failure
GetLoadReply(i, st, usage) ==
    /\ ~crashed
    /\ loadThread = "wait"
    /\ i \in 1..Len(loads)
    /\ loads[i].st = "pending"
    /\ st \in {"resolved", "rejected"}
    /\ st = "rejected" => usage = RUsage(0, 0, 0, 0)
    /\ (st = "resolved" /\ i <= Len(lastUsages)) =>
           TotalElapsed(usage) >= TotalElapsed(lastUsages[i])
    /\ loads' = [loads EXCEPT ![i] = Future(st, usage)]
    /\ UNCHANGED <<ioGroup, sigInstalled, listen_fd, g_listen_fd, sh, loadThread,
                   fdTable, conns, runpc, client_fd, acceptErr, runShutdowns, hpc,
                   crashed, ops, last, bindOk, interrupted, lastUsages, load>>

WhenAllAnySettled(l) == \E i \in 1..Len(l) : l[i].st # "pending"

\* Async::whenAll(...).then(...): the combined result is there when every
\* future of the round has settled
WhenAllSettled(l) == \A i \in 1..Len(l) : l[i].st # "pending"

\* the combined future is rejected when one of the futures is
WhenAllRejected(l) == \E i \in 1..Len(l) : l[i].st = "rejected"

NoExceptTerminates == crashed' = TRUE /\ UNCHANGED <<lastUsages, load>>

\* Async::NoExcept, the rejection handler given to then(): the failure is
\* dropped
NoExcept == UNCHANGED <<lastUsages, load, crashed>>

\* the continuation given to then(), run with the usages of the round.
\* lastUsages[i] with i past the end of lastUsages (the pool grew since the
\* snapshot was cached) reads past the end of the vector: the thread
\* crashes, or computes with whatever the read yields.
UsagesThen(usages) ==
    IF lastUsages = <<>>
      THEN /\ lastUsages' = usages
           /\ UNCHANGED <<load, crashed>>
      ELSE \/ /\ Len(usages) > Len(lastUsages)
              /\ crashed' = TRUE
              /\ UNCHANGED <<lastUsages, load>>
           \/ \E garbage \in RUsages :
                /\ Len(usages) <= Len(lastUsages) => garbage = RUsage(0, 0, 0, 0)
                /\ load' = [i \in 1..Len(usages) |->
                               Load(usages[i], IF i <= Len(lastUsages)
                                                 THEN lastUsages[i] ELSE garbage)]
                /\ lastUsages' = usages
                /\ UNCHANGED crashed

LoadThen ==
    /\ ~crashed
    /\ loadThread = "wait"
    /\ WhenAllSettled(loads)
    /\ IF WhenAllRejected(loads)
         THEN NoExcept
         ELSE UsagesThen([i \in 1..Len(loads) |-> loads[i].usage])
    /\ loadThread' = "sleep"
    /\ UNCHANGED <<ioGroup, sigInstalled, listen_fd, g_listen_fd, sh, fdTable,
                   conns, runpc, client_fd, acceptErr, runShutdowns, hpc,
                   ops, last, bindOk, interrupted, loads>>

\* std::this_thread::sleep_for(std::chrono::seconds(1)); the locals of the
\* iteration are gone
LoadSleep ==
    /\ ~crashed
    /\ loadThread = "sleep"
    /\ loadThread' = "test"
    /\ loads' = <<>>
    /\ load' = <<>>
    /\ UNCHANGED <<ioGroup, sigInstalled, listen_fd, g_listen_fd, sh, fdTable,
                   conns, runpc, client_fd, acceptErr, runShutdowns, hpc,
                   crashed, ops, last, bindOk, interrupted, lastUsages>>

HandlerStep == \E h \in Handlers : HandlerTest(h) \/ HandlerClose(h) \/ HandlerClear(h)

Next ==
    \/ \E w \in 0..MaxWorkers : ListenerInit(w, FALSE, FALSE)
    \/ \E w \in 0..MaxWorkers, f \in BOOLEAN : ListenerInit(w, TRUE, f)
    \/ \E w \in 0..(MaxWorkers + 1) : pinWorker(w)
    \/ bind(FALSE, <<>>)
    \/ \E c \in CandLists : bind(TRUE, c)
    \/ RunCall
    \/ AcceptCall
    \/ AcceptConn
    \/ AcceptClosed
    \/ AcceptFailed
    \/ RunShutdown
    \/ dispatchPeer
    \/ shutdown
    \/ \E h \in Handlers : Deliver(h)
    \/ HandlerStep
    \/ LoadTest
    \/ LoadRound
    \/ \E c \in 1..MaxConns : WorkerClosePeer(c)

Spec == Init /\ [][Next]_vars

\* ---- one run of the listener, fairly scheduled ----
\* The owner sets the listener up and calls run() once; after that only
\* shutdown() may still be called, and the process does not run out of
\* descriptors.  The accept thread, the handler and the load thread keep
\* running; connections arrive or not as the peers please.
OneRunNext ==
    /\ Next
    /\ runpc # "idle" => (ops' = ops \/ last'.op = "shutdown")
    /\ acceptErr' # "EMFILE"

RunProgress == AcceptCall \/ AcceptClosed \/ AcceptFailed \/ RunShutdown \/ dispatchPeer

FairSpec ==
    /\ Init
    /\ [][OneRunNext]_vars
    /\ WF_vars(RunProgress)
    /\ WF_vars(HandlerStep)
    /\ WF_vars(LoadTest)
    /\ WF_vars(LoadRound)

\* ---- the load thread, round by round ----
\* The owner sets the listener up and shuts it down; the load thread runs
\* its rounds step by step and the workers settle their futures.  The
\* resolver yields one candidate, which binds: the load thread does not look
\* at the descriptors.
LoadNext ==
    \/ \E w \in 1..MaxWorkers : ListenerInit(w, FALSE, FALSE)
    \/ bind(TRUE, <<"ok">>)
    \/ shutdown
    \/ LoadTest
    \/ LoadIssue
    \/ \E i \in 1..MaxWorkers, usage \in RUsages : GetLoadReply(i, "resolved", usage)
    \/ \E i \in 1..MaxWorkers : GetLoadReply(i, "rejected", RUsage(0, 0, 0, 0))
    \/ LoadThen
    \/ LoadSleep

LoadSpec == Init /\ [][LoadNext]_vars

\* ---- properties ----
\* the handoffs of connection c: <<worker, position in its peers>>
Handed(c) ==
    UNION {{<<i, k>> : k \in {j \in 1..Len(ioGroup[i].peers) : ioGroup[i].peers[j] = c}} :
             i \in 1..Size}

Bound == IsListening(fdTable, listen_fd) /\ g_listen_fd = listen_fd

AllStopped == \A i \in 1..Size : ioGroup[i].stops >= 1

\* C1: when the handler closes the descriptor run() is blocked on, the accept
\* fails, run() does not end by an exception, and when it has returned it has
\* called shutdown() exactly once.
C1_SignalEndsRun ==
    (sigInstalled /\ interrupted) =>
        /\ runpc \in {"failed", "shutdown", "returned"}
        /\ runpc = "returned" => runShutdowns = 1

\* C2: once SIGINT is delivered to a bound listener whose run() is executing,
\* eventually run() has returned, every worker has been told to stop, the
\* shutdown flag is true and the load thread has left its loop.
C2_SignalShutsDown ==
    (sigInstalled /\ Bound /\ runpc \in {"accept", "blocked", "dispatch"}
        /\ \E h \in Handlers : hpc[h] = "test")
    ~> (runpc = "returned" /\ AllStopped /\ sh /\ loadThread = "exited")

\* C3: every accepted connection is handed to exactly one worker exactly
\* once; only the connection run() has just accepted is not handed yet.
C3_HandedExactlyOnce ==
    \A c \in 1..Len(conns) :
        /\ Cardinality(Handed(c)) <= 1
        /\ Handed(c) = {} => (c = Len(conns) /\ runpc = "dispatch")

C3_Witness ==
    /\ Len(conns) = 2
    /\ runpc # "dispatch"
    /\ \E i, j \in 1..Size : i # j /\ Handed(1) = {<<i, 1>>} /\ Handed(2) = {<<j, 1>>}

\* C4: a connection with descriptor d is handed, in a pool of N workers, to
\* the worker at index d mod N, which lies in [0, N); two connections with
\* the same descriptor and pool size get the same worker.
C4_DispatchByModulo ==
    /\ \A c \in 1..Len(conns) : \A ik \in Handed(c) :
          /\ conns[c].n >= 1
          /\ ik[1] - 1 = conns[c].fd % conns[c].n
          /\ ik[1] - 1 \in 0..(conns[c].n - 1)
          /\ conns[c].w = ik[1] - 1
    /\ \A c, e \in 1..Len(conns) :
          (conns[c].fd = conns[e].fd /\ conns[c].n = conns[e].n) => conns[c].w = conns[e].w

C4_Witness ==
    /\ Size = 2
    /\ Len(conns) = 2
    /\ conns[1].fd = conns[2].fd
    /\ conns[1].fd % 2 = 1
    /\ Handed(1) # {} /\ Handed(2) # {}

\* C5: whenever bind returns true, the descriptor recorded in listen_fd and
\* in g_listen_fd is non-negative and is an open listening socket.
C5_BoundIsListening ==
    [][bindOk' # bindOk =>
          /\ listen_fd' >= 0
          /\ g_listen_fd' = listen_fd'
          /\ IsListening(fdTable', listen_fd')]_vars

\* C6: when bind returns true after one of its candidates bound, exactly one
\* socket it opened is still open, and that one is the recorded listening
\* socket: no other candidate socket is left open.
C6_OneSocketLeftOpen ==
    [][(bindOk' # bindOk /\ \E f \in Fds : fdTable[f] = "closed" /\ fdTable'[f] = "listening") =>
          /\ {f \in Fds : fdTable[f] = "closed" /\ fdTable'[f] # "closed"} = {listen_fd'}
          /\ IsListening(fdTable', listen_fd')]_vars

\* C7: whenever shutdown has run, through run() or called directly, every
\* worker of the pool has received exactly one stop request.
C7_OneStopEach ==
    [][(\E i \in 1..Size : ioGroup'[i].stops # ioGroup[i].stops) =>
          \A i \in 1..Size : ioGroup'[i].stops = 1]_vars

\* C8: pinWorker with an index >= the pool size fails with a configuration
\* error and pins no worker.
C8_PinOutOfRangeFails ==
    [][(ops' # ops /\ last'.op = "pinWorker" /\ last'.arg >= Size) =>
          /\ last'.res \in {"domain_error", "invalid_argument"}
          /\ ioGroup' = ioGroup
          /\ ~crashed']_vars

\* C9: bind on a listener whose pool init never filled fails with a
\* configuration error and changes nothing: no descriptor is recorded or
\* opened, no worker is started, no load thread is started.
C9_BindBeforeInitFails ==
    [][(ops' # ops /\ last'.op = "bind" /\ Size = 0) =>
          /\ last'.res = "runtime_error"
          /\ listen_fd' = -1 /\ listen_fd = -1
          /\ g_listen_fd' = -1 /\ g_listen_fd = -1
          /\ loadThread' = "none" /\ loadThread = "none"
          /\ UNCHANGED <<ioGroup, fdTable, sh, bindOk, crashed>>]_vars

C9_Witness == Size = 0 /\ last.op = "bind" /\ last.res = "runtime_error"

\* C10 as stated: the shutdown flag only ever changes from false to true.
C10_FlagNeverReset == [][sh' # sh => (~sh /\ sh')]_vars

\* C10 amended: the shutdown flag is set to true only by shutdown() (called
\* directly or by run()) and set to false only by a bind call that got past
\* its candidate loop.
C10_FlagResetOnlyByBind ==
    [][sh' # sh =>
          IF sh' THEN \/ ops' # ops /\ last'.op = "shutdown"
                      \/ runpc = "shutdown" /\ runpc' = "returned"
          ELSE /\ ops' # ops
               /\ last'.op = "bind"
               /\ last'.res \in {"true", "terminate"}]_vars

C10_Witness ==
    /\ last.op = "bind"
    /\ last.res = "true"
    /\ ~sh
    /\ \E i \in 1..Size : ioGroup[i].stops >= 1

\* C11: once init has filled the pool, no later operation changes the number
\* of workers in it.
C11_PoolSizeFixed == [][Size > 0 => Len(ioGroup') = Size]_vars

\* C12: run() takes an accept failure for the shutdown path only when a
\* signal was handled: with no SIGINT ever delivered, every accept failure
\* makes run() throw, without calling shutdown().
C12_ShutdownPathNeedsSignal ==
    [][(runpc = "failed" /\ runpc' = "shutdown") =>
          \E h \in Handlers : hpc[h] # "idle"]_vars

\* C13: in every state listen_fd is the unbound sentinel or the number of an
\* open socket in the listening state; it never holds the number of a closed
\* descriptor.
C13_ListenFdSentinelOrListening ==
    listen_fd = -1 \/ IsListening(fdTable, listen_fd)

\* C14: when bind returns true, every worker of the pool has been started
\* exactly once since the listener was constructed, the load thread is
\* started by that call, after the workers, and the shutdown flag is false.
C14_BindStartsEachWorkerOnce ==
    [][bindOk' # bindOk =>
          /\ Len(ioGroup') = Size
          /\ \A i \in 1..Size : ioGroup'[i].starts = 1
          /\ loadThread = "none" /\ loadThread' = "test"
          /\ ~sh']_vars

C14_Witness ==
    /\ last.op = "bind" /\ last.res = "true"
    /\ Size = 2
    /\ \A i \in 1..Size : ioGroup[i].starts = 1 /\ ioGroup[i].stops = 1
    /\ loadThread = "test"
    /\ ~sh

\* C15: however many SIGINTs are delivered, on whatever threads, the
\* listening descriptor is closed at most once: no handler calls close on the
\* recorded descriptor after another handler has closed it.
C15_ClosedAtMostOnce ==
    [][\A h \in Handlers :
          (hpc[h] = "close" /\ hpc'[h] = "clear") =>
              \A k \in Handlers \ {h} : hpc[k] # "clear"]_vars

\* C18: in every state in which the shutdown flag is true, every worker of
\* the pool has received a stop request.
C18_FlagImpliesAllStopped == sh => AllStopped

\* C20: no connection is handed to a worker that has received a stop
\* request.
C20_NoHandoffAfterStop ==
    [][\A i \in 1..Size :
          Len(ioGroup'[i].peers) > Len(ioGroup[i].peers) => ioGroup[i].stops = 0]_vars

\* C16: a round of the load thread is a barrier.  The round asks every
\* worker of the pool for its usage; a new round starts only when none is
\* outstanding; while a worker of the round has not reported, the thread
\* stays in the round and processes nothing; the round is processed only
\* when every worker has reported.
C16_RoundIsBarrier ==
    [][/\ (loadThread = "round" /\ loadThread' = "wait") =>
              /\ loads = <<>>
              /\ Len(loads') = Size
              /\ \A i \in 1..Size : loads'[i].st = "pending"
       /\ (loadThread = "wait" /\ \E i \in 1..Len(loads) : loads[i].st = "pending") =>
              /\ loadThread' = "wait"
              /\ lastUsages' = lastUsages /\ load' = load
       /\ (lastUsages' # lastUsages \/ load' # load \/ loads' = <<>>) =>
              \A i \in 1..Len(loads) : loads[i].st # "pending"]_vars

C16_Witness ==
    /\ loadThread = "sleep"
    /\ Size = 2 /\ Len(loads) = 2
    /\ \A i \in 1..2 : loads[i].st = "resolved"
    /\ loads[1].usage # loads[2].usage
    /\ lastUsages = <<loads[1].usage, loads[2].usage>>
    /\ load # <<>>

\* the interval of the rounds in microseconds: sleep_for(seconds(1))
RoundIntervalUs == 1000000

\* cumulative user + system CPU time of a snapshot, in microseconds
CpuMicros(u) ==
    u.ru_utime.tv_sec * 1000000 + u.ru_utime.tv_usec
        + u.ru_stime.tv_sec * 1000000 + u.ru_stime.tv_usec

\* C17: the first completed round only caches its snapshot; every later
\* completed round computes, for every worker i of the round, the load
\* 100 * (cur_i - prev_i) / T from the worker's CPU time in this round and
\* in the cached snapshot, and then replaces the snapshot by its own.
C17_LoadDelta ==
    [][(loadThread = "wait" /\ loadThread' = "sleep"
            /\ \A i \in 1..Len(loads) : loads[i].st = "resolved") =>
          IF lastUsages = <<>>
            THEN /\ load' = <<>>
                 /\ lastUsages' = [i \in 1..Len(loads) |-> loads[i].usage]
            ELSE /\ Len(lastUsages) = Len(loads)
                 /\ load' = [i \in 1..Len(loads) |->
                               (100 * (CpuMicros(loads[i].usage) - CpuMicros(lastUsages[i])))
                                   \div RoundIntervalUs]
                 /\ lastUsages' = [i \in 1..Len(loads) |-> loads[i].usage]]_vars

\* C19: when a worker's usage future of a round has failed, the round ends
\* with the cached snapshot unchanged, no load computed, the process alive
\* and no other thread's state touched, and the thread goes on to its sleep
\* and its next loop test; the load thread leaves its loop only at a loop
\* test that finds the shutdown flag true.
C19_UsageFailureSwallowed ==
    [][/\ (loadThread = "wait" /\ loadThread' # "wait"
              /\ \E i \in 1..Len(loads) : loads[i].st = "rejected") =>
              /\ loadThread' = "sleep"
              /\ lastUsages' = lastUsages /\ load' = load
              /\ ~crashed'
              /\ UNCHANGED <<ioGroup, sh, listen_fd, g_listen_fd, fdTable, runpc, last>>
       /\ (loadThread # "exited" /\ loadThread' = "exited") =>
              (loadThread = "test" /\ sh)]_vars

C19_Witness ==
    /\ loadThread = "sleep"
    /\ Len(loads) = 2
    /\ loads[1].st = "resolved" /\ loads[2].st = "rejected"
    /\ lastUsages # <<>>
    /\ loads[1].usage # lastUsages[1]
    /\ ~crashed
====
